---- MODULE Spec2Model ----
(***************************************************************************)
(* The deck audio pipeline of the Anki audio generator.                    *)
(*                                                                         *)
(* Two pipelines share one Supabase cache (table audio_cache, bucket       *)
(* audio-files):                                                           *)
(*   derive   src/app.py process_deck: builds a new audio practice deck   *)
(*            from a target and a native language;                         *)
(*   augment  src/api/process.py process_deck: appends an audio marker to *)
(*            the fields of a deck that are in the target language.        *)
(*                                                                         *)
(* Text is a sequence of tokens: a markup tag, a blank, a word, or an      *)
(* audio marker "[sound:<digest>.mp3]".  The language detector, the        *)
(* digest and the synthesiser are functions of the text, fixed below.      *)
(*                                                                         *)
(* Every call of Supabase and of ElevenLabs may raise.  A call inside a     *)
(* try/except takes either outcome here; that covers the calls whose name  *)
(* does not resolve (download_ at src/api/process.py:86, audio_generator   *)
(* at src/api/process.py:123), which raise on every call.  Decoding may    *)
(* raise as well (a bad archive; TemporaryDirector at                      *)
(* src/api/process.py:136).  Lines 259-300 of src/app.py read a name,      *)
(* cards_data, that no scope binds; the derive pipeline is modelled from   *)
(* line 302 on.                                                            *)
(***************************************************************************)
EXTENDS Naturals, Sequences, FiniteSets, Bags, TLC

\* ------------------------------------------------------------------ bounds
\* Notes per input deck.
MaxNotes == 2
\* Pipeline runs started in one behaviour.
MaxRuns == 2

\* ------------------------------------------------------------------ text
Tag == [k |-> "tag", v |-> 0]
Sp == [k |-> "sp", v |-> 0]
W(i) == [k |-> "w", v |-> i]
Snd(h) == [k |-> "snd", v |-> h]

\* The words of the model: 0 is "hola", 1 is "hello", 2 is "123".
Hola == W(0)
Hello == W(1)
Digits == W(2)

None == "None"

\* lingua's answer for a word; "123" has no language.
WordLanguage(w) ==
  CASE w = 0 -> "SPANISH"
    [] w = 1 -> "ENGLISH"
    [] OTHER -> None

\* src/app.py LANGUAGE_MAP (the codes the model uses).
LANGUAGE_MAP == [c \in {"en", "es", "fr"} |->
  CASE c = "en" -> "ENGLISH" [] c = "es" -> "SPANISH" [] OTHER -> "FRENCH"]

\* src/api/process.py LANGUAGE_MAP: English is 'en-US' there.
LANGUAGE_MAP_api == [c \in {"en-US", "es", "fr"} |->
  CASE c = "en-US" -> "ENGLISH" [] c = "es" -> "SPANISH" [] OTHER -> "FRENCH"]

\* dict.get(key): None for a key the table lacks.
MapGet(map, code) == IF code \in DOMAIN map THEN map[code] ELSE None

\* re.sub('<[^<]+?>', '', field): the tags go, everything else stays.
StripTags(field) == SelectSeq(field, LAMBDA t : t.k # "tag")

RECURSIVE LStrip(_)
LStrip(s) == IF s # <<>> /\ Head(s).k = "sp" THEN LStrip(Tail(s)) ELSE s

RECURSIVE RStrip(_)
RStrip(s) ==
  IF s # <<>> /\ s[Len(s)].k = "sp" THEN RStrip(SubSeq(s, 1, Len(s) - 1)) ELSE s

\* str.strip()
Strip(s) == RStrip(LStrip(s))

\* re.sub('<[^<]+?>', '', field).strip()
CleanText(field) == Strip(StripTags(field))

\* detector.detect_language_of: the language of the first word, if any.
RECURSIVE DetectLanguageOf(_)
DetectLanguageOf(text) ==
  IF text = <<>> THEN None
  ELSE IF Head(text).k = "w" THEN WordLanguage(Head(text).v)
  ELSE DetectLanguageOf(Tail(text))

detect_field_language(text) ==
  IF text = <<>> \/ Strip(text) = <<>> THEN None
  ELSE IF Strip(StripTags(text)) = <<>> THEN None
  ELSE DetectLanguageOf(StripTags(text))

\* has_audio_tag that finds no marker in any text.
has_audio_tag_never(text) == FALSE

\* re.search(r'\[sound:[^\]]+\]', text)
has_audio_tag(text) == \E i \in 1..Len(text) : text[i].k = "snd"

\* A token's contribution to the digest.
TokenCode(t) ==
  CASE t.k = "tag" -> 1
    [] t.k = "sp" -> 2
    [] t.k = "w" -> 3 + t.v
    [] OTHER -> 6

\* hashlib.md5(text.encode('utf-8')).hexdigest(): a digest of the text and of
\* nothing else, injective on the texts of the model.
RECURSIVE Md5(_)
Md5(text) ==
  IF text = <<>> THEN 0
  ELSE 7 * Md5(SubSeq(text, 1, Len(text) - 1)) + TokenCode(text[Len(text)])

generate_audio_hash(text) == Md5(text)

\* f"{text_hash}.mp3"
Filename(text_hash) == <<text_hash, "mp3">>

\* ------------------------------------------------------------------ inputs
\* The fields the input decks are built from.
F_hola == <<Tag, Hola, Tag>>
F_hello == <<Hello>>
F_digits == <<Digits>>
F_blank == <<Tag, Sp, Tag>>
F_marked == <<Hola, Sp, Snd(Md5(<<Hola>>))>>

NotePool == {
  <<F_hola, F_blank, F_hello>>,
  <<F_hello, F_digits, F_hola>>,
  <<F_hola, F_digits>>,
  <<F_hola>>,
  <<F_marked, F_hello>> }

RECURSIVE SeqsUpTo(_, _)
SeqsUpTo(S, n) ==
  IF n = 0 THEN {<<>>}
  ELSE LET shorter == SeqsUpTo(S, n - 1)
       IN shorter \cup {Append(d, x) : d \in shorter, x \in S}

Decks == SeqsUpTo(NotePool, MaxNotes)

\* The uploaded bytes: a deck archive, or bytes that are no archive.
BadArchive == [valid |-> FALSE, notes |-> <<>>]
Archives == {BadArchive} \cup {[valid |-> TRUE, notes |-> d] : d \in Decks}
OneNoteArchives == {[valid |-> TRUE, notes |-> <<n>>] : n \in NotePool}

\* The requests in flight.
Runs == {1, 2}

\* src/gunicorn_config.py: one sync worker serves the requests one by one.
workers == 1

\* ------------------------------------------------------------------ state
VARIABLES
  run,          \* per run: the locals of process_deck and its position
  table,        \* the rows of Supabase table audio_cache
  storage,      \* the objects of Supabase bucket audio-files, by file name
  synth_calls,  \* the calls of generate_audio_elevenlabs: text, language, ok
  runs_started

vars == <<run, table, storage, synth_calls, runs_started>>

\* audio_data = None
NoAudio == [h |-> 0, lang |-> None]

NoArchive == [notes |-> <<>>, media |-> <<>>, emitted |-> FALSE]

IdleRun == [
  pc |-> "Idle", mode |-> "derive",
  target_language |-> None, native_language |-> None,
  apkg_file |-> [valid |-> FALSE, notes |-> <<>>],
  notes |-> <<>>, ni |-> 1, fi |-> 1,
  foreign_text |-> <<>>, native_text |-> <<>>, clean_text |-> <<>>,
  audio_data |-> NoAudio,
  updated_fields |-> <<>>, modified |-> FALSE,
  deck_notes |-> <<>>, media_files_data |-> <<>>, count |-> 0,
  cards_data |-> <<>>, uncertain_count |-> 0,
  output_data |-> NoArchive ]

Init ==
  /\ run = [r \in Runs |-> IdleRun]
  /\ table = {}
  /\ storage = <<>>
  /\ synth_calls = EmptyBag
  /\ runs_started = 0

\* d[key] = value on a dict
DictPut(d, key, value) ==
  [x \in DOMAIN d \cup {key} |-> IF x = key THEN value ELSE d[x]]

\* ------------------------------------------------------------------ cache
\* get_cached_audio with a key no row has: every lookup is a miss.
get_cached_audio_miss(text_hash, fault) == NoAudio

\* get_cached_audio: the first row of the digest names the file to download;
\* whatever raises (fault) is caught and answered with None.
get_cached_audio(text_hash, fault) ==
  IF fault = "select" THEN NoAudio
  ELSE LET rows == {row \in table : row.text_hash = text_hash}
       IN IF rows = {} THEN NoAudio
          ELSE LET file_path == (CHOOSE row \in rows : TRUE).file_path
               IN IF fault = "download" \/ file_path \notin DOMAIN storage
                  THEN NoAudio
                  ELSE storage[file_path]

LookupFaults == {"none", "select", "download"}

\* cache_audio, first call: upload(filename, audio_data).
StorageUpload(text_hash, audio_data) ==
  DictPut(storage, Filename(text_hash), audio_data)

\* cache_audio, second call: the row inserted into audio_cache.
CacheRow(text_hash, text, language) ==
  [text_hash |-> text_hash, text |-> text,
   file_path |-> Filename(text_hash), language |-> language]

\* generate_audio_elevenlabs: the speech of the text in the language, or None
\* when the client raises.
generate_audio_elevenlabs(text, language, ok) ==
  IF ok THEN [h |-> Md5(text), lang |-> language] ELSE NoAudio

\* ------------------------------------------------------------------ roles
\* The field loop of the derive pipeline: the first field in the native
\* language is native_text, the first of the others is foreign_text.
RECURSIVE AssignRoles(_, _, _, _)
AssignRoles(fields, i, native_lang, acc) ==
  IF i > Len(fields) THEN acc
  ELSE LET clean_text == CleanText(fields[i])
           detected_lang == detect_field_language(clean_text)
       IN IF clean_text = <<>> THEN AssignRoles(fields, i + 1, native_lang, acc)
          ELSE IF detected_lang = native_lang
          THEN AssignRoles(fields, i + 1, native_lang,
                 IF acc.native_text = <<>>
                 THEN [acc EXCEPT !.native_text = clean_text] ELSE acc)
          ELSE AssignRoles(fields, i + 1, native_lang,
                 IF acc.foreign_text = <<>>
                 THEN [acc EXCEPT !.foreign_text = clean_text] ELSE acc)

NoRoles == [foreign_text |-> <<>>, native_text |-> <<>>]

\* ------------------------------------------------------------------ a run
Derive(r) == run[r].mode = "derive"

\* The text whose audio the run is resolving.
CardText(rec) == IF rec.mode = "derive" THEN rec.foreign_text ELSE rec.clean_text

\* The language the run asks the synthesiser for; the augment pipeline
\* passes none.
SynthLanguage(rec) == IF rec.mode = "derive" THEN rec.target_language ELSE "auto"

\* The card has its audio: it goes to the output, and the loop goes on.
\*   derive   media_files_data[audio_filename] = audio_data; deck.add_note
\*   augment  audio_files[audio_filename] = audio_data; field + " [sound:..]"
WithAudio(rec, audio_data) ==
  LET text_hash == generate_audio_hash(CardText(rec))
      audio_filename == Filename(text_hash)
  IN IF rec.mode = "derive"
     THEN [rec EXCEPT
             !.media_files_data = DictPut(@, audio_filename, audio_data),
             !.deck_notes = Append(@, <<<<Snd(text_hash)>>, rec.foreign_text,
                                        rec.native_text>>),
             !.count = @ + 1,
             !.audio_data = NoAudio,
             !.ni = @ + 1,
             !.pc = "Classifying"]
     ELSE [rec EXCEPT
             !.media_files_data = DictPut(@, audio_filename, audio_data),
             !.updated_fields =
                Append(@, rec.notes[rec.ni][rec.fi] \o <<Sp, Snd(text_hash)>>),
             !.modified = TRUE,
             !.audio_data = NoAudio,
             !.fi = @ + 1,
             !.pc = "Classifying"]

\* WithoutAudio that goes on as if the synthesis had answered.
WithoutAudioMarked(rec) == WithAudio(rec, NoAudio)

\* The synthesis gave nothing.
\*   derive   continue: the note gives no card
\*   augment  updated_fields.append(field)
WithoutAudio(rec) ==
  IF rec.mode = "derive"
  THEN [rec EXCEPT !.audio_data = NoAudio, !.ni = @ + 1, !.pc = "Classifying"]
  ELSE [rec EXCEPT
          !.updated_fields = Append(@, rec.notes[rec.ni][rec.fi]),
          !.audio_data = NoAudio,
          !.fi = @ + 1,
          !.pc = "Classifying"]

\* The request arrives: the form gives the languages, the upload the bytes.
Begin(r, mode, target, native, apkg) ==
  /\ run[r].pc = "Idle"
  /\ runs_started < MaxRuns
  /\ run' = [run EXCEPT ![r] = [IdleRun EXCEPT
        !.pc = "Validating", !.mode = mode, !.target_language = target,
        !.native_language = native, !.apkg_file = apkg]]
  /\ runs_started' = runs_started + 1
  /\ UNCHANGED <<table, storage, synth_calls>>

\* The language the pipeline looks up before it opens the archive:
\*   derive   LANGUAGE_MAP.get(native_language)
\*   augment  LANGUAGE_MAP.get(target_language)
ValidatedLanguage(rec) ==
  IF rec.mode = "derive"
  THEN MapGet(LANGUAGE_MAP, rec.native_language)
  ELSE MapGet(LANGUAGE_MAP_api, rec.target_language)

Validate(r) ==
  /\ run[r].pc = "Validating"
  /\ run' = [run EXCEPT ![r].pc =
        IF ValidatedLanguage(run[r]) = None THEN "Failed" ELSE "Decoding"]
  /\ UNCHANGED <<table, storage, synth_calls, runs_started>>

\* Unzip the upload and read the notes; bytes that are no archive raise.
Decode(r) ==
  /\ run[r].pc = "Decoding"
  /\ run' = [run EXCEPT ![r] =
        IF run[r].apkg_file.valid
        THEN [@ EXCEPT !.pc = "Classifying",
                        !.notes = run[r].apkg_file.notes,
                        !.deck_notes = IF run[r].mode = "derive" THEN <<>>
                                       ELSE run[r].apkg_file.notes]
        ELSE [@ EXCEPT !.pc = "Failed"]]
  /\ UNCHANGED <<table, storage, synth_calls, runs_started>>

\* The note loop of the derive pipeline: the roles of the next note, and a
\* card to resolve when it has both texts.
DeriveClassify(r) ==
  /\ run[r].pc = "Classifying"
  /\ Derive(r)
  /\ run[r].ni <= Len(run[r].notes)
  /\ LET native_lang == MapGet(LANGUAGE_MAP, run[r].native_language)
         roles == AssignRoles(run[r].notes[run[r].ni], 1, native_lang, NoRoles)
     IN run' = [run EXCEPT ![r] =
          IF roles.foreign_text # <<>> /\ roles.native_text # <<>>
          THEN [@ EXCEPT !.foreign_text = roles.foreign_text,
                          !.native_text = roles.native_text,
                          !.pc = "Lookup"]
          ELSE [@ EXCEPT !.ni = @ + 1]]
  /\ UNCHANGED <<table, storage, synth_calls, runs_started>>

\* The field loop of the augment pipeline, one field a step: a field with a
\* marker, or not in the target language, or empty once cleaned, is copied.
AugmentField(r) ==
  /\ run[r].pc = "Classifying"
  /\ ~Derive(r)
  /\ run[r].ni <= Len(run[r].notes)
  /\ run[r].fi <= Len(run[r].notes[run[r].ni])
  /\ LET field == run[r].notes[run[r].ni][run[r].fi]
         target_lang == MapGet(LANGUAGE_MAP_api, run[r].target_language)
         clean_text == CleanText(field)
     IN run' = [run EXCEPT ![r] =
          IF has_audio_tag(field)
          THEN [@ EXCEPT !.updated_fields = Append(@, field), !.fi = @ + 1]
          ELSE IF detect_field_language(field) = target_lang /\ clean_text # <<>>
          THEN [@ EXCEPT !.clean_text = clean_text, !.pc = "Lookup"]
          ELSE [@ EXCEPT !.updated_fields = Append(@, field), !.fi = @ + 1]]
  /\ UNCHANGED <<table, storage, synth_calls, runs_started>>

\* The end of a note of the augment pipeline: UPDATE notes when modified.
AugmentNoteDone(r) ==
  /\ run[r].pc = "Classifying"
  /\ ~Derive(r)
  /\ run[r].ni <= Len(run[r].notes)
  /\ run[r].fi > Len(run[r].notes[run[r].ni])
  /\ run' = [run EXCEPT ![r] =
        [@ EXCEPT
           !.deck_notes = IF run[r].modified
                          THEN [@ EXCEPT ![run[r].ni] = run[r].updated_fields]
                          ELSE @,
           !.count = IF run[r].modified THEN @ + 1 ELSE @,
           !.updated_fields = <<>>,
           !.modified = FALSE,
           !.fi = 1,
           !.ni = @ + 1]]
  /\ UNCHANGED <<table, storage, synth_calls, runs_started>>

\* The notes are exhausted.
LoopDone(r) ==
  /\ run[r].pc = "Classifying"
  /\ run[r].ni > Len(run[r].notes)
  /\ run' = [run EXCEPT ![r].pc = "Encoding"]
  /\ UNCHANGED <<table, storage, synth_calls, runs_started>>

\* LookupWith without the try/except of get_cached_audio: what raises ends
\* the run.
LookupRaises(r, faults) ==
  /\ run[r].pc = "Lookup"
  /\ \E fault \in faults :
       LET text_hash == generate_audio_hash(CardText(run[r]))
           audio_data == get_cached_audio(text_hash, fault)
       IN run' = [run EXCEPT ![r] =
            IF fault # "none" THEN [@ EXCEPT !.pc = "Failed"]
            ELSE IF audio_data # NoAudio THEN WithAudio(@, audio_data)
            ELSE [@ EXCEPT !.pc = "Synth"]]
  /\ UNCHANGED <<table, storage, synth_calls, runs_started>>

\* audio_data = get_cached_audio(text_hash), with the calls that may raise.
LookupWith(r, faults) ==
  /\ run[r].pc = "Lookup"
  /\ \E fault \in faults :
       LET text_hash == generate_audio_hash(CardText(run[r]))
           audio_data == get_cached_audio(text_hash, fault)
       IN run' = [run EXCEPT ![r] =
            IF audio_data # NoAudio THEN WithAudio(@, audio_data)
            ELSE [@ EXCEPT !.pc = "Synth"]]
  /\ UNCHANGED <<table, storage, synth_calls, runs_started>>

\* audio_data = generate_audio_elevenlabs(text, target_language); synth_calls
\* is kept by the specifications that count the calls.
SynthWith(r, counted) ==
  /\ run[r].pc = "Synth"
  /\ \E ok \in BOOLEAN :
       LET text == CardText(run[r])
           language == SynthLanguage(run[r])
           audio_data == generate_audio_elevenlabs(text, language, ok)
       IN /\ run' = [run EXCEPT ![r] =
                IF audio_data # NoAudio
                THEN [@ EXCEPT !.audio_data = audio_data, !.pc = "Upload"]
                ELSE WithoutAudio(@)]
          /\ synth_calls' =
                IF counted
                THEN synth_calls (+) SetToBag(
                       {[text |-> text, language |-> run[r].target_language,
                         ok |-> ok]})
                ELSE synth_calls
  /\ UNCHANGED <<table, storage, runs_started>>

\* UploadWith without the try/except of cache_audio.
UploadRaises(r, outcomes) ==
  /\ run[r].pc = "Upload"
  /\ \E ok \in outcomes :
       LET text_hash == generate_audio_hash(CardText(run[r]))
       IN /\ storage' = IF ok THEN StorageUpload(text_hash, run[r].audio_data)
                         ELSE storage
          /\ run' = [run EXCEPT ![r] =
                IF ok THEN [@ EXCEPT !.pc = "Insert"]
                ELSE [@ EXCEPT !.pc = "Failed"]]
  /\ UNCHANGED <<table, synth_calls, runs_started>>

\* UploadWith with the upload and the insert in a try/except each: the
\* insert is made also when the upload raised.
UploadThenInsert(r, outcomes) ==
  /\ run[r].pc = "Upload"
  /\ \E ok \in outcomes :
       LET text_hash == generate_audio_hash(CardText(run[r]))
       IN storage' = IF ok THEN StorageUpload(text_hash, run[r].audio_data)
                      ELSE storage
  /\ run' = [run EXCEPT ![r].pc = "Insert"]
  /\ UNCHANGED <<table, synth_calls, runs_started>>

\* cache_audio, the upload; when it raises the insert is skipped.
UploadWith(r, outcomes) ==
  /\ run[r].pc = "Upload"
  /\ \E ok \in outcomes :
       LET text_hash == generate_audio_hash(CardText(run[r]))
       IN /\ storage' = IF ok THEN StorageUpload(text_hash, run[r].audio_data)
                         ELSE storage
          /\ run' = [run EXCEPT ![r] =
                IF ok THEN [@ EXCEPT !.pc = "Insert"]
                ELSE WithAudio(@, run[r].audio_data)]
  /\ UNCHANGED <<table, synth_calls, runs_started>>

\* cache_audio, the insert.
InsertWith(r, outcomes) ==
  /\ run[r].pc = "Insert"
  /\ \E ok \in outcomes :
       LET text == CardText(run[r])
           row == CacheRow(generate_audio_hash(text), text,
                           run[r].target_language)
       IN table' = IF ok THEN table \cup {row} ELSE table
  /\ run' = [run EXCEPT ![r] = WithAudio(@, run[r].audio_data)]
  /\ UNCHANGED <<storage, synth_calls, runs_started>>

Lookup(r) == LookupWith(r, LookupFaults)
Synth(r) == SynthWith(r, FALSE)
Upload(r) == UploadWith(r, BOOLEAN)
Insert(r) == InsertWith(r, BOOLEAN)

\* MediaFiles with package.media_files left unset.
MediaFilesNone(media_files_data) == <<>>

\* The media files the archive gets: one per entry of the dict.
MediaFiles(media_files_data) == media_files_data

\* Write the media files and the archive; the bytes are the result.
Encode(r) ==
  /\ run[r].pc = "Encoding"
  /\ run' = [run EXCEPT ![r] = [@ EXCEPT
        !.output_data = [notes |-> run[r].deck_notes,
                         media |-> MediaFiles(run[r].media_files_data),
                         emitted |-> TRUE],
        !.pc = "Done"]]
  /\ UNCHANGED <<table, storage, synth_calls, runs_started>>

\* The response is sent; the locals of the run are gone.
Return(r) ==
  /\ run[r].pc \in {"Done", "Failed"}
  /\ run' = [run EXCEPT ![r] = IdleRun]
  /\ UNCHANGED <<table, storage, synth_calls, runs_started>>

Active == {r \in Runs : run[r].pc # "Idle"}

\* A request is taken by the first free handler.
FirstIdle(r) == run[r].pc = "Idle" /\ \A s \in Runs : s < r => run[s].pc # "Idle"

\* ------------------------------------------------------------------ Spec
\* Both pipelines on one cache, the requests served one by one; every
\* Supabase and ElevenLabs call may raise.
StartDerive(r) ==
  /\ FirstIdle(r)
  /\ Cardinality(Active) < workers
  /\ \E in \in {"es"} \X {"en", "xx"} \X Archives :
       Begin(r, "derive", in[1], in[2], in[3])

StartAugment(r) ==
  /\ FirstIdle(r)
  /\ Cardinality(Active) < workers
  /\ \E in \in {"es", "xx"} \X Archives : Begin(r, "augment", in[1], None, in[2])

Next ==
  \E r \in Runs :
    \/ StartDerive(r)
    \/ StartAugment(r)
    \/ Validate(r)
    \/ Decode(r)
    \/ DeriveClassify(r)
    \/ AugmentField(r)
    \/ AugmentNoteDone(r)
    \/ LoopDone(r)
    \/ Lookup(r)
    \/ Synth(r)
    \/ Upload(r)
    \/ Insert(r)
    \/ Encode(r)
    \/ Return(r)

Spec == Init /\ [][Next]_vars

\* ------------------------------------------------------------------ SpecApp
\* The Flask service of src/app.py alone under gunicorn: derive runs, one by
\* one, over every target and native code of the model.
StartApp(r) ==
  /\ FirstIdle(r)
  /\ Cardinality(Active) < workers
  /\ \E in \in {"es", "fr", "xx"} \X {"en", "xx"} \X Archives :
       Begin(r, "derive", in[1], in[2], in[3])

NextApp ==
  \E r \in Runs :
    \/ StartApp(r)
    \/ Validate(r)
    \/ Decode(r)
    \/ DeriveClassify(r)
    \/ LoopDone(r)
    \/ Lookup(r)
    \/ Synth(r)
    \/ Upload(r)
    \/ Insert(r)
    \/ Encode(r)
    \/ Return(r)

SpecApp == Init /\ [][NextApp]_vars

\* ------------------------------------------------------------------ SpecReliable
\* Both pipelines, one by one, with a cache store whose reads and writes
\* succeed; the synthesis may still fail.  The requests are counted.
LookupOk(r) == LookupWith(r, {"none"})
SynthCounted(r) == SynthWith(r, TRUE)
UploadOk(r) == UploadWith(r, {TRUE})
InsertOk(r) == InsertWith(r, {TRUE})

StartReliable(r) ==
  /\ FirstIdle(r)
  /\ Cardinality(Active) < workers
  /\ \/ \E in \in {"es"} \X {"en"} \X (Archives \ {BadArchive}) :
          Begin(r, "derive", in[1], in[2], in[3])
     \/ \E in \in {"es"} \X (Archives \ {BadArchive}) :
          Begin(r, "augment", in[1], None, in[2])

NextReliable ==
  \E r \in Runs :
    \/ StartReliable(r)
    \/ Validate(r)
    \/ Decode(r)
    \/ DeriveClassify(r)
    \/ AugmentField(r)
    \/ AugmentNoteDone(r)
    \/ LoopDone(r)
    \/ LookupOk(r)
    \/ SynthCounted(r)
    \/ UploadOk(r)
    \/ InsertOk(r)
    \/ Encode(r)
    \/ Return(r)

SpecReliable == Init /\ [][NextReliable]_vars

\* ------------------------------------------------------------------ SpecConc
\* src/app.py started as a script (app.run): Flask serves each request on a
\* thread of its own, so two runs interleave at every Supabase and
\* ElevenLabs call.  The decks have one note.
StartThreaded(r) ==
  /\ FirstIdle(r)
  /\ \E in \in {"es", "fr"} \X {"en"} \X OneNoteArchives :
       Begin(r, "derive", in[1], in[2], in[3])

NextConc ==
  \E r \in Runs :
    \/ StartThreaded(r)
    \/ Validate(r)
    \/ Decode(r)
    \/ DeriveClassify(r)
    \/ LoopDone(r)
    \/ Lookup(r)
    \/ Synth(r)
    \/ Upload(r)
    \/ Insert(r)
    \/ Encode(r)
    \/ Return(r)

SpecConc == Init /\ [][NextConc]_vars

\* ------------------------------------------------------------------ SpecAnalyze
\* analyze_deck of src/app.py: the preview of the cards a deck would give.
\* Its local native_text is bound by no statement before the field loop:
\* it is unbound until an assignment runs, a read of it while unbound raises
\* UnboundLocalError, and its value stays from one note to the next.
Unbound == <<[k |-> "unbound", v |-> 0]>>

\* The field loop of analyze_deck over the fields of a note.
RECURSIVE AnalyzeFields(_, _, _, _)
AnalyzeFields(fields, i, native_lang, acc) ==
  IF i > Len(fields) \/ acc.raised THEN acc
  ELSE LET clean_text == CleanText(fields[i])
           detected_lang == detect_field_language(clean_text)
           listed == [acc EXCEPT !.field_data = Append(@, clean_text)]
       IN IF clean_text = <<>> THEN AnalyzeFields(fields, i + 1, native_lang, acc)
          ELSE IF detected_lang = native_lang
          THEN AnalyzeFields(fields, i + 1, native_lang,
                 IF acc.native_text = Unbound THEN [listed EXCEPT !.raised = TRUE]
                 ELSE IF acc.native_text = <<>>
                 THEN [listed EXCEPT !.native_text = clean_text]
                 ELSE listed)
          ELSE AnalyzeFields(fields, i + 1, native_lang,
                 IF acc.foreign_text = <<>>
                 THEN [listed EXCEPT !.foreign_text = clean_text] ELSE listed)

\* What follows the field loop: the uncertain mark and count, the
\* positional fallback, and the card.
AnalyzeCard(rec, acc) ==
  IF acc.raised THEN [rec EXCEPT !.pc = "Failed"]
  ELSE IF acc.foreign_text # <<>> /\ acc.native_text = Unbound
  THEN [rec EXCEPT !.pc = "Failed"]
  ELSE
    LET is_uncertain == acc.foreign_text = <<>> \/ acc.native_text = <<>>
        fallback == is_uncertain /\ Len(acc.field_data) >= 2
        foreign_text == IF fallback THEN acc.field_data[1] ELSE acc.foreign_text
        native_text == IF fallback THEN acc.field_data[2] ELSE acc.native_text
        counted == [rec EXCEPT
                      !.uncertain_count = IF is_uncertain THEN @ + 1 ELSE @,
                      !.native_text = native_text,
                      !.ni = @ + 1]
    IN IF foreign_text = <<>> THEN counted
       ELSE IF native_text = Unbound
       THEN [counted EXCEPT !.pc = "Failed", !.ni = rec.ni]
       ELSE IF native_text = <<>> THEN counted
       ELSE [counted EXCEPT !.cards_data = Append(@,
               [foreign_text |-> foreign_text, native_text |-> native_text,
                is_uncertain |-> is_uncertain])]

\* The notes of the analysis: the pool, and notes with no text at all.
AnalyzeNotePool == NotePool \cup {<<F_blank>>, <<F_blank, F_blank>>}

AnalyzeArchives ==
  {BadArchive} \cup
  {[valid |-> TRUE, notes |-> d] : d \in SeqsUpTo(AnalyzeNotePool, MaxNotes)}

StartAnalyze(r) ==
  /\ FirstIdle(r)
  /\ Cardinality(Active) < workers
  /\ runs_started < MaxRuns
  /\ \E in \in {"en", "xx"} \X AnalyzeArchives :
       run' = [run EXCEPT ![r] = [IdleRun EXCEPT
         !.pc = "Validating", !.mode = "analyze", !.native_language = in[1],
         !.apkg_file = in[2], !.native_text = Unbound]]
  /\ runs_started' = runs_started + 1
  /\ UNCHANGED <<table, storage, synth_calls>>

\* native_lang = LANGUAGE_MAP.get(native_language); raise when there is none.
AnalyzeValidate(r) ==
  /\ run[r].pc = "Validating"
  /\ run[r].mode = "analyze"
  /\ run' = [run EXCEPT ![r].pc =
        IF MapGet(LANGUAGE_MAP, run[r].native_language) = None
        THEN "Failed" ELSE "Decoding"]
  /\ UNCHANGED <<table, storage, synth_calls, runs_started>>

AnalyzeDecode(r) ==
  /\ run[r].pc = "Decoding"
  /\ run[r].mode = "analyze"
  /\ run' = [run EXCEPT ![r] =
        IF run[r].apkg_file.valid
        THEN [@ EXCEPT !.pc = "Classifying", !.notes = run[r].apkg_file.notes]
        ELSE [@ EXCEPT !.pc = "Failed"]]
  /\ UNCHANGED <<table, storage, synth_calls, runs_started>>

\* The note loop of analyze_deck, one note a step.
AnalyzeNote(r) ==
  /\ run[r].pc = "Classifying"
  /\ run[r].mode = "analyze"
  /\ run[r].ni <= Len(run[r].notes)
  /\ LET native_lang == MapGet(LANGUAGE_MAP, run[r].native_language)
         acc == AnalyzeFields(run[r].notes[run[r].ni], 1, native_lang,
                  [field_data |-> <<>>, foreign_text |-> <<>>,
                   native_text |-> run[r].native_text, raised |-> FALSE])
     IN run' = [run EXCEPT ![r] = AnalyzeCard(@, acc)]
  /\ UNCHANGED <<table, storage, synth_calls, runs_started>>

\* return {'total_cards': .., 'uncertain_cards': .., 'cards': ..}
AnalyzeDone(r) ==
  /\ run[r].pc = "Classifying"
  /\ run[r].mode = "analyze"
  /\ run[r].ni > Len(run[r].notes)
  /\ run' = [run EXCEPT ![r].pc = "Done"]
  /\ UNCHANGED <<table, storage, synth_calls, runs_started>>

NextAnalyze ==
  \E r \in Runs :
    \/ StartAnalyze(r)
    \/ AnalyzeValidate(r)
    \/ AnalyzeDecode(r)
    \/ AnalyzeNote(r)
    \/ AnalyzeDone(r)
    \/ Return(r)

SpecAnalyze == Init /\ [][NextAnalyze]_vars

\* ------------------------------------------------------------------ SpecRerun
\* The augment pipeline, one request at a time, every Supabase and
\* ElevenLabs call free to raise; a client may send the archive a run has
\* just returned back for another run.
StartRerun(r) ==
  /\ run[r].pc = "Idle"
  /\ \E s \in Runs :
       /\ run[s].pc = "Done"
       /\ run[s].mode = "augment"
       /\ run[s].output_data.emitted
       /\ Begin(r, "augment", run[s].target_language, None,
                [valid |-> TRUE, notes |-> run[s].output_data.notes])

NextRerun ==
  \E r \in Runs :
    \/ StartAugment(r)
    \/ StartRerun(r)
    \/ Validate(r)
    \/ Decode(r)
    \/ AugmentField(r)
    \/ AugmentNoteDone(r)
    \/ LoopDone(r)
    \/ Lookup(r)
    \/ Synth(r)
    \/ Upload(r)
    \/ Insert(r)
    \/ Encode(r)
    \/ Return(r)

SpecRerun == Init /\ [][NextRerun]_vars

\* ------------------------------------------------------------------ claims
\* The phase of the run a position belongs to.
Phase(pc) == IF pc \in {"Lookup", "Synth", "Upload", "Insert"} THEN "Resolving" ELSE pc

InLoop == {"Classifying", "Lookup", "Synth", "Upload", "Insert"}

\* The cache holds an entry for the digest: a row and its file.
EntryExists(text_hash) ==
  /\ Filename(text_hash) \in DOMAIN storage
  /\ \E row \in table : row.text_hash = text_hash

Last(seq) == seq[Len(seq)]

\* The file names of the markers a run wrote into the notes it emitted:
\* the Audio field of every note of a derived deck, the marker appended to
\* every field an augment run changed.
WrittenRefs(rec) ==
  LET out == rec.output_data.notes
  IN IF rec.mode = "derive"
     THEN {Filename(out[i][1][1].v) : i \in 1..Len(out)}
     ELSE {Filename(Last(out[p[1]][p[2]]).v) :
             p \in {q \in (1..Len(out)) \X (1..3) :
                      /\ q[2] <= Len(out[q[1]])
                      /\ out[q[1]][q[2]] # rec.notes[q[1]][q[2]]}}

\* C1: when the synthesis of a card fails the card gets no marker and no
\* media (augment: the field is copied as it is; derive: no note is added),
\* the loop goes on with the next field or note, and no step of the note
\* loop or of the encoding ends the run in Failed: the run reaches Done with
\* its archive.
Theorem_C1 ==
  [][\A r \in Runs :
       /\ (run[r].pc = "Synth" /\ run'[r].pc \notin {"Synth", "Upload"}) =>
            /\ run'[r].pc = "Classifying"
            /\ run'[r].media_files_data = run[r].media_files_data
            /\ run'[r].deck_notes = run[r].deck_notes
            /\ run'[r].count = run[r].count
            /\ run'[r].modified = run[r].modified
            /\ IF run[r].mode = "derive"
               THEN run'[r].ni = run[r].ni + 1
               ELSE /\ run'[r].updated_fields =
                        Append(run[r].updated_fields,
                               run[r].notes[run[r].ni][run[r].fi])
                    /\ run'[r].fi = run[r].fi + 1
                    /\ run'[r].ni = run[r].ni
       /\ (run[r].pc \in InLoop \cup {"Encoding"}) => run'[r].pc # "Failed"
       /\ (run[r].pc = "Encoding" /\ run'[r].pc # "Encoding") =>
            run'[r].pc = "Done" /\ run'[r].output_data.emitted
       /\ (run[r].pc \in InLoop /\ run[r].mode = "augment") =>
            Len(run[r].updated_fields) = run[r].fi - 1
    ]_vars

\* An augment run has emitted its archive: the synthesis failed for the
\* Spanish field of the first note, which is as it came, and the second
\* note got its marker.
Witness_C1 ==
  \E r \in Runs :
    /\ run[r].pc = "Done"
    /\ run[r].mode = "augment"
    /\ run[r].output_data.emitted
    /\ Len(run[r].notes) = 2
    /\ run[r].notes[1] = <<F_hola>>
    /\ run[r].output_data.notes[1] = <<F_hola>>
    /\ run[r].output_data.notes[2] # run[r].notes[2]
    /\ table = {}

\* C2: every file name a marker written by the run refers to is among the
\* media of the archive the run emits.
Theorem_C2 ==
  \A r \in Runs :
    run[r].output_data.emitted =>
      /\ run[r].pc = "Done"
      /\ WrittenRefs(run[r]) \subseteq DOMAIN run[r].output_data.media

\* An archive is out whose notes refer to two audio files.
Witness_C2 ==
  \E r \in Runs :
    /\ run[r].output_data.emitted
    /\ Cardinality(WrittenRefs(run[r])) = 2

\* The calls of the synthesiser for a text in a language, failed ones
\* included, and the ones that gave audio.
Calls(text, language) ==
  CopiesIn([text |-> text, language |-> language, ok |-> TRUE], synth_calls)
  + CopiesIn([text |-> text, language |-> language, ok |-> FALSE], synth_calls)

Synthesised(text, language) ==
  CopiesIn([text |-> text, language |-> language, ok |-> TRUE], synth_calls)

Counterexample_C4 ==
  [][/\ \A a \in table' : \A b \in table' :
          (a.text = b.text /\ a.language # b.language) =>
             a.text_hash # b.text_hash
     /\ \A r \in Runs :
          (run[r].pc = "Lookup" /\ run'[r].pc = "Classifying") =>
             \A fn \in DOMAIN run'[r].media_files_data :
                run'[r].media_files_data[fn].lang = run[r].target_language
    ]_vars

\* C5 as stated: once the cache holds an entry for a digest no run issues
\* a store for that digest, also after a lookup of the entry that failed.
Counterexample_C5 ==
  \A r \in Runs :
    run[r].pc = "Upload" =>
      ~EntryExists(generate_audio_hash(CardText(run[r])))

\* C6 as stated: when two runs have both missed one digest and both
\* synthesised it, the two stores carry the same content, so the entry is
\* the same whichever store comes last.
Counterexample_C6 ==
  \A r \in Runs : \A s \in Runs :
    ( /\ r # s
      /\ run[r].pc \in {"Upload", "Insert"}
      /\ run[s].pc \in {"Upload", "Insert"}
      /\ generate_audio_hash(CardText(run[r])) =
           generate_audio_hash(CardText(run[s])) )
    => run[r].audio_data = run[s].audio_data

\* The card of the run has its audio attached: the blob is in the media of
\* the run under the name of the digest and the card refers to it.
Attached(before, after) ==
  LET text_hash == generate_audio_hash(CardText(before))
      fn == Filename(text_hash)
  IN /\ after.pc = "Classifying"
     /\ fn \in DOMAIN after.media_files_data
     /\ after.media_files_data[fn] = before.audio_data
     /\ before.audio_data # NoAudio
     /\ IF before.mode = "derive"
        THEN /\ after.count = before.count + 1
             /\ Len(after.deck_notes) = Len(before.deck_notes) + 1
             /\ Last(after.deck_notes)[1] = <<Snd(text_hash)>>
        ELSE /\ after.modified
             /\ after.updated_fields =
                  Append(before.updated_fields,
                         before.notes[before.ni][before.fi]
                           \o <<Sp, Snd(text_hash)>>)

\* C7: no failure of the cache fails a card or the run.  A lookup ends in
\* the cached audio or, whatever raised, as a miss does: the run goes to the
\* synthesis with nothing else changed.  A store that raises, at the upload
\* or at the insert, is dropped: the synthesised blob is attached to the
\* media of the run and the card refers to it.
Theorem_C7 ==
  [][\A r \in Runs :
       /\ (run[r].pc = "Lookup" /\ run'[r] # run[r]) =>
            \/ run'[r] = [run[r] EXCEPT !.pc = "Synth"]
            \/ /\ run'[r].pc = "Classifying"
               /\ Filename(generate_audio_hash(CardText(run[r])))
                    \in DOMAIN run'[r].media_files_data
       /\ (run[r].pc = "Upload" /\ run'[r] # run[r]) =>
            \/ /\ run'[r] = [run[r] EXCEPT !.pc = "Insert"]
               /\ Filename(generate_audio_hash(CardText(run[r])))
                    \in DOMAIN storage'
            \/ /\ storage' = storage
               /\ Attached(run[r], run'[r])
       /\ (run[r].pc = "Insert" /\ run'[r] # run[r]) =>
            Attached(run[r], run'[r])
    ]_vars

\* A run has attached a blob whose upload raised (the bucket has no such
\* file), and is on its way to the synthesis of a text whose entry is in
\* the cache: the lookup of that entry raised.
Witness_C7 ==
  \E r \in Runs :
    /\ run[r].pc = "Synth"
    /\ EntryExists(generate_audio_hash(CardText(run[r])))
    /\ \E fn \in DOMAIN run[r].media_files_data : fn \notin DOMAIN storage

\* The phases a run may go through, in the order of C8 as stated.
InOrder == {
  <<"Idle", "Validating">>, <<"Validating", "Decoding">>,
  <<"Validating", "Failed">>, <<"Decoding", "Classifying">>,
  <<"Decoding", "Failed">>, <<"Classifying", "Resolving">>,
  <<"Resolving", "Encoding">>, <<"Encoding", "Done">>,
  <<"Done", "Idle">>, <<"Failed", "Idle">> }

Supported(rec) ==
  IF rec.mode = "derive" THEN DOMAIN LANGUAGE_MAP ELSE DOMAIN LANGUAGE_MAP_api

\* C9 as stated: a run whose target or native language is outside the
\* table of supported codes fails at validation; no run with such a code
\* opens the archive, looks into the cache or calls the synthesiser.
Counterexample_C9 ==
  \A r \in Runs :
    run[r].pc \notin {"Idle", "Validating", "Failed"} =>
      /\ run[r].target_language \in Supported(run[r])
      /\ run[r].mode = "derive" => run[r].native_language \in Supported(run[r])

\* The first field of a note, cleaned and not empty, that is in the native
\* language (native) or in a detected language that is not the native one
\* (~native); <<>> when there is none.
RECURSIVE FirstField(_, _, _, _)
FirstField(fields, i, native_lang, native) ==
  IF i > Len(fields) THEN <<>>
  ELSE LET clean_text == CleanText(fields[i])
           detected_lang == detect_field_language(clean_text)
       IN IF /\ clean_text # <<>>
             /\ IF native THEN detected_lang = native_lang
                ELSE detected_lang # None /\ detected_lang # native_lang
          THEN clean_text
          ELSE FirstField(fields, i + 1, native_lang, native)

\* C10 as stated: the foreign text of a card is the first non-empty field
\* of its note whose language was detected and is not the native language
\* (a field with no detected language is never the foreign text), and the
\* native text is the first non-empty field in the native language.
Counterexample_C10 ==
  \A r \in Runs :
    (run[r].mode = "derive" /\ run[r].pc = "Lookup") =>
      LET native_lang == MapGet(LANGUAGE_MAP, run[r].native_language)
          fields == run[r].notes[run[r].ni]
      IN /\ run[r].foreign_text =
              FirstField(fields, 1, native_lang, FALSE)
         /\ run[r].native_text =
              FirstField(fields, 1, native_lang, TRUE)

\* The fields of a note that are not empty once cleaned, in field order.
RECURSIVE NormalizedFields(_, _)
NormalizedFields(fields, i) ==
  IF i > Len(fields) THEN <<>>
  ELSE LET clean_text == CleanText(fields[i])
       IN IF clean_text = <<>> THEN NormalizedFields(fields, i + 1)
          ELSE <<clean_text>> \o NormalizedFields(fields, i + 1)

\* C11 as stated: a note of the deck conversion whose fields leave the
\* foreign or the native text missing, and which has two non-empty fields
\* or more, still gives a card, with its first non-empty field as the
\* foreign text and its second as the native text.
Counterexample_C11 ==
  [][\A r \in Runs :
       LET rec == run[r]
           fields == rec.notes[rec.ni]
           roles == AssignRoles(fields, 1,
                      MapGet(LANGUAGE_MAP, rec.native_language), NoRoles)
           normalized == NormalizedFields(fields, 1)
       IN ( /\ rec.mode = "derive"
            /\ rec.pc = "Classifying"
            /\ rec.ni <= Len(rec.notes)
            /\ run'[r] # rec
            /\ roles.foreign_text = <<>> \/ roles.native_text = <<>>
            /\ Len(normalized) >= 2 )
          => /\ run'[r].pc = "Lookup"
             /\ run'[r].foreign_text = normalized[1]
             /\ run'[r].native_text = normalized[2]
    ]_vars

\* C12 as stated: a note of the analysis with fewer than two non-empty
\* fields gives no card and leaves the uncertain count as it is, so the
\* uncertain count of a deck is the number of its cards marked uncertain.
Counterexample_C12 ==
  [][\A r \in Runs :
       /\ ( /\ run[r].mode = "analyze"
            /\ run[r].pc = "Classifying"
            /\ run[r].ni <= Len(run[r].notes)
            /\ run'[r] # run[r]
            /\ Len(NormalizedFields(run[r].notes[run[r].ni], 1)) < 2 )
          => /\ run'[r].cards_data = run[r].cards_data
             /\ run'[r].uncertain_count = run[r].uncertain_count
       /\ run'[r].mode = "analyze" =>
            run'[r].uncertain_count =
              Cardinality({i \in 1..Len(run'[r].cards_data) :
                             run'[r].cards_data[i].is_uncertain})
    ]_vars

\* The audio markers of a field.
Markers(field) == Len(SelectSeq(field, LAMBDA t : t.k = "snd"))

\* C13: in the augment pipeline a field that has an audio marker is copied
\* as it is, and the step that copies it goes to the next field with no
\* lookup, no synthesis and no store: nothing of the cache changes.  So no
\* field of an archive the pipeline emits has two markers, also when the
\* input was an archive the pipeline had emitted.
Theorem_C13 ==
  [][\A r \in Runs :
       /\ ( /\ run[r].mode = "augment"
            /\ run[r].pc = "Classifying"
            /\ run[r].ni <= Len(run[r].notes)
            /\ run[r].fi <= Len(run[r].notes[run[r].ni])
            /\ Markers(run[r].notes[run[r].ni][run[r].fi]) >= 1
            /\ run'[r] # run[r] )
          => /\ run'[r] = [run[r] EXCEPT
                  !.updated_fields =
                     Append(@, run[r].notes[run[r].ni][run[r].fi]),
                  !.fi = @ + 1]
             /\ UNCHANGED <<table, storage, synth_calls>>
       /\ run'[r].output_data.emitted =>
            \A i \in 1..Len(run'[r].output_data.notes) :
              \A j \in 1..Len(run'[r].output_data.notes[i]) :
                Markers(run'[r].output_data.notes[i][j]) <= 1
    ]_vars

\* A run is done whose input was the archive of an earlier run: the field
\* "<b>hola</b> [sound:..]" came in with the marker that run had appended,
\* and went out as it came.
Witness_C13 ==
  \E r \in Runs :
    /\ run[r].pc = "Done"
    /\ run[r].mode = "augment"
    /\ run[r].output_data.emitted
    /\ Len(run[r].notes) >= 1
    /\ run[r].notes[1][1] = F_hola \o <<Sp, Snd(Md5(<<Hola>>))>>
    /\ run[r].output_data.notes = run[r].notes
    /\ run[r].count = 0

====
